---- MODULE Spec2Model ----
(***************************************************************************)
(* Wellness Record Builder (src/src/App.js): the field normalizer, the     *)
(* resource builders, generateBundle and the React state around them.      *)
(*                                                                         *)
(* Text that the code parses (dates, unique identifiers, references) is a  *)
(* sequence of one-character strings; text the code only copies is a TLA+  *)
(* string.  A JavaScript value whose type the code tests is a record with  *)
(* a type tag t.                                                           *)
(***************************************************************************)
EXTENDS Integers, Sequences, FiniteSets, TLC

VARIABLES
    apiPatients,    \* useState([])   the value of the feed: [t |-> "array", items |-> records]
    forms,          \* useState([])   one normalized form per raw record
    selectedIndex,  \* useState(-1)   0-based index into forms
    form,           \* useState(null) the form being edited
    practitioner,   \* useState({...GLOBAL_PRACTITIONER})
    physicalText,   \* useState("")
    generalNotes,   \* useState("")
    generalPain,    \* useState(false)
    lifestyle,      \* useState([{label: "Smoking", value: false}])
    vitals,         \* useState({hr, systolic, diastolic, temp, spo2})
    body,           \* useState({height, weight, bmi})
    bundleJson,     \* useState("")   the serialized bundle, or NoBundle
    message,        \* useState("")
    loadState,      \* position of the one-shot patients.json load
    uuidCount,      \* number of identities uuidv4() has coined so far
    steps,          \* number of events handled so far
    call            \* the pure-function call under examination

appVars == <<apiPatients, forms, selectedIndex, form, practitioner, physicalText,
             generalNotes, generalPain, lifestyle, vitals, body, bundleJson,
             message, loadState, uuidCount, steps>>

vars == <<apiPatients, forms, selectedIndex, form, practitioner, physicalText,
          generalNotes, generalPain, lifestyle, vitals, body, bundleJson,
          message, loadState, uuidCount, steps, call>>

(***************************************************************************)
(* Text helpers                                                            *)
(***************************************************************************)
Digits == {"0", "1", "2", "3", "4", "5", "6", "7", "8", "9"}

HexLower == {"a", "b", "c", "d", "e", "f"}

HexUpper == {"A", "B", "C", "D", "E", "F"}

Rep(c, n) == [i \in 1..n |-> c]

\* JavaScript values whose type the code inspects
Undefined == [t |-> "undefined"]

Str(s) == [t |-> "string", s |-> s]

Num(n) == [t |-> "number", n |-> n]

UpperAlpha == <<"A", "B", "C", "D", "E", "F", "G", "H", "I", "J", "K", "L", "M",
                "N", "O", "P", "Q", "R", "S", "T", "U", "V", "W", "X", "Y", "Z">>

LowerAlpha == <<"a", "b", "c", "d", "e", "f", "g", "h", "i", "j", "k", "l", "m",
                "n", "o", "p", "q", "r", "s", "t", "u", "v", "w", "x", "y", "z">>

\* String.prototype.toLowerCase
toLowerChar(c) ==
    IF \E i \in 1..Len(UpperAlpha) : UpperAlpha[i] = c
    THEN LowerAlpha[CHOOSE i \in 1..Len(UpperAlpha) : UpperAlpha[i] = c]
    ELSE c

toLowerCase(s) == [i \in 1..Len(s) |-> toLowerChar(s[i])]

\* String.prototype.trim
RECURSIVE trimStart(_)
trimStart(s) == IF s # <<>> /\ Head(s) = " " THEN trimStart(Tail(s)) ELSE s

RECURSIVE trimEnd(_)
trimEnd(s) ==
    IF s # <<>> /\ s[Len(s)] = " " THEN trimEnd(SubSeq(s, 1, Len(s) - 1)) ELSE s

trim(s) == trimEnd(trimStart(s))

\* String.prototype.includes for a one-character needle
includes(s, c) == \E i \in 1..Len(s) : s[i] = c

\* String.prototype.split for a one-character separator
RECURSIVE splitFrom(_, _, _)
splitFrom(s, sep, cur) ==
    IF s = <<>> THEN <<cur>>
    ELSE IF Head(s) = sep THEN <<cur>> \o splitFrom(Tail(s), sep, <<>>)
    ELSE splitFrom(Tail(s), sep, Append(cur, Head(s)))

split(s, sep) == splitFrom(s, sep, <<>>)

\* String.prototype.padStart(n, "0")
padStart(s, n) == IF Len(s) >= n THEN s ELSE Rep("0", n - Len(s)) \o s

(***************************************************************************)
(* isUuid, App.js line 38                                                  *)
(***************************************************************************)
isHex(c) == c \in Digits \cup HexLower \cup HexUpper

\* the pattern of line 38 accepting the version digit 4 only
uuidRegexTestVersion4Only(s) ==
    /\ Len(s) = 36
    /\ \A i \in {9, 14, 19, 24} : s[i] = "-"
    /\ s[15] = "4"
    /\ s[20] \in {"8", "9", "a", "b", "A", "B"}
    /\ \A i \in (1..36) \ {9, 14, 15, 19, 20, 24} : isHex(s[i])

\* /^[0-9a-f]{8}-[0-9a-f]{4}-[1-5][0-9a-f]{3}-[89ab][0-9a-f]{3}-[0-9a-f]{12}$/i
uuidRegexTest(s) ==
    /\ Len(s) = 36
    /\ \A i \in {9, 14, 19, 24} : s[i] = "-"
    /\ s[15] \in {"1", "2", "3", "4", "5"}
    /\ s[20] \in {"8", "9", "a", "b", "A", "B"}
    /\ \A i \in (1..36) \ {9, 14, 15, 19, 20, 24} : isHex(s[i])

isUuid(v) == v.t = "string" /\ uuidRegexTest(v.s)

(***************************************************************************)
(* ddmmyyyyToISO, App.js lines 40-51.  v is a string value or undefined;   *)
(* the result is a string ("" is the empty sequence).                      *)
(***************************************************************************)
\* /^\d{4}-\d{2}-\d{2}$/
isoRegexTest(s) ==
    /\ Len(s) = 10
    /\ s[5] = "-" /\ s[8] = "-"
    /\ \A i \in {1, 2, 3, 4, 6, 7, 9, 10} : s[i] \in Digits

ddmmyyyyToISOParts(parts) ==
    IF Len(parts) # 3 THEN <<>>
    ELSE LET dd == parts[1]
             mm == parts[2]
             yyyy == parts[3]
         IN  IF yyyy # <<>> /\ Len(yyyy) = 4
             THEN padStart(yyyy, 4) \o <<"-">> \o padStart(mm, 2) \o <<"-">> \o padStart(dd, 2)
             ELSE <<>>

ddmmyyyyToISO(v) ==
    IF v.t = "undefined" \/ v.s = <<>> THEN <<>>
    ELSE LET s == trim(v.s)
         IN  IF isoRegexTest(s) THEN s
             ELSE IF includes(s, "-") THEN ddmmyyyyToISOParts(split(s, "-"))
             ELSE IF includes(s, "/") THEN ddmmyyyyToISOParts(split(s, "/"))
             ELSE <<>>

(***************************************************************************)
(* extractAbhaAddresses, App.js lines 53-73.  The nested list is Undefined *)
(* (absent or not list-shaped) or [t |-> "array", items |-> ...]; an item  *)
(* is null, a string, an object (its address property, "" when it has      *)
(* none, and its JSON encoding) or a value of another type.                *)
(***************************************************************************)
\* the callback of raw.map(...): null is modelled by ""
abhaItemAddress(it) ==
    CASE it.t = "null" -> ""
      [] it.t = "string" -> it.s
      [] it.t = "object" -> IF it.address # "" THEN it.address ELSE it.json
      [] OTHER -> ""

\* Array.from(new Set(xs.filter(Boolean))): first occurrences, in order
RECURSIVE uniqueTruthy(_, _)
uniqueTruthy(xs, seen) ==
    IF xs = <<>> THEN <<>>
    ELSE IF Head(xs) = "" \/ Head(xs) \in seen THEN uniqueTruthy(Tail(xs), seen)
    ELSE <<Head(xs)>> \o uniqueTruthy(Tail(xs), seen \cup {Head(xs)})

\* the addresses of the list without new Set(...): repetitions are kept
extractAbhaAddressesKeepingRepeats(apiPatient) ==
    LET raw == apiPatient.abha_addresses
    IN  IF raw.t # "array"
        THEN IF apiPatient.abha_ref # "" THEN <<apiPatient.abha_ref>> ELSE <<>>
        ELSE SelectSeq([i \in 1..Len(raw.items) |-> abhaItemAddress(raw.items[i])],
                       LAMBDA a : a # "")

extractAbhaAddresses(apiPatient) ==
    LET raw == apiPatient.abha_addresses
    IN  IF raw.t # "array"
        THEN IF apiPatient.abha_ref # "" THEN <<apiPatient.abha_ref>> ELSE <<>>
        ELSE uniqueTruthy([i \in 1..Len(raw.items) |-> abhaItemAddress(raw.items[i])], {})

(***************************************************************************)
(* mapApiToForm, App.js lines 75-89                                        *)
(***************************************************************************)
\* String(n) for a non-negative integer
RECURSIVE numberToString(_)
numberToString(n) ==
    LET d == <<"0", "1", "2", "3", "4", "5", "6", "7", "8", "9">>[(n % 10) + 1]
    IN  IF n < 10 THEN <<d>> ELSE Append(numberToString(n \div 10), d)

mapApiToForm(apiP) ==
    [ api |-> apiP,
      resourceId |-> IF isUuid(apiP.user_ref_id) THEN toLowerCase(apiP.user_ref_id.s) ELSE <<>>,
      displayName |-> apiP.name,
      gender |-> toLowerCase(apiP.gender),
      birthDate |-> ddmmyyyyToISO(apiP.dob),
      mobile |-> apiP.mobile,
      address |-> apiP.address,
      abhaRef |-> apiP.abha_ref,
      abhaAddresses |-> extractAbhaAddresses(apiP),
      selectedAbhaAddress |-> Undefined,
      mrn |-> IF apiP.user_id # 0 THEN numberToString(apiP.user_id) ELSE <<>> ]

(***************************************************************************)
(* Identities.  uuidv4() returns a random version-4 identifier; its        *)
(* collisions are out of the model: the n-th call returns uuidv4(n), a     *)
(* value no earlier call returned.                                         *)
(***************************************************************************)
uuidv4(n) ==
    Rep("0", 8) \o <<"-">> \o Rep("0", 4) \o <<"-", "4">> \o Rep("0", 3)
        \o <<"-", "8">> \o Rep("0", 3) \o <<"-">> \o padStart(numberToString(n), 12)

\* the template literal `urn:uuid:${id}`
urnUuid(id) == <<"urn:uuid:">> \o id

Null == [t |-> "null"]

\* the empty string held by bundleJson
NoBundle == <<>>

NDHM_PATIENT_PROFILE == "https://nrces.in/ndhm/fhir/r4/StructureDefinition/Patient"

NDHM_PRACTITIONER_PROFILE == "https://nrces.in/ndhm/fhir/r4/StructureDefinition/Practitioner"

NDHM_WELLNESS_COMPOSITION == "https://nrces.in/ndhm/fhir/r4/StructureDefinition/WellnessRecord"

OBS_PHYSICAL_PROFILE == "https://nrces.in/ndhm/fhir/r4/StructureDefinition/ObservationPhysicalActivity"

OBS_GENERAL_PROFILE == "https://nrces.in/ndhm/fhir/r4/StructureDefinition/ObservationGeneralAssessment"

OBS_LIFESTYLE_PROFILE == "https://nrces.in/ndhm/fhir/r4/StructureDefinition/ObservationLifestyle"

GLOBAL_PRACTITIONER == [loginId |-> "pract-001", name |-> "Dr. ABC", license |-> "LIC-1234"]

\* truthiness of form.selectedAbhaAddress (undefined, or a string)
truthy(v) == v.t = "string" /\ v.s # ""

(***************************************************************************)
(* buildFhirPatient, App.js lines 92-154.  coin is the value uuidv4()      *)
(* returns if line 93 calls it.                                            *)
(***************************************************************************)
patientReusesId(form_) == form_.resourceId # <<>> /\ isUuid(Str(form_.resourceId))

patientId(form_, coin) ==
    IF patientReusesId(form_) THEN toLowerCase(form_.resourceId) ELSE coin

\* lines 94-138 without the fallback of lines 129-138
patientIdentifierWithoutFallback(form_, id) ==
    (IF form_.abhaRef # ""
     THEN << [system |-> "https://healthid.abdm.gov.in", value |-> form_.abhaRef,
              type |-> [code |-> "PI", text |-> "ABHA Number"]] >>
     ELSE <<>>)
    \o (IF truthy(form_.selectedAbhaAddress)
        THEN << [system |-> "https://healthid.abdm.gov.in/address",
                 value |-> form_.selectedAbhaAddress.s,
                 type |-> [code |-> "PN", text |-> "ABHA Address"]] >>
        ELSE <<>>)
    \o (IF form_.mrn # <<>>
        THEN << [system |-> "http://hospital.example/mrn", value |-> form_.mrn,
                 type |-> [code |-> "MR", text |-> "MRN"]] >>
        ELSE <<>>)

patientIdentifier(form_, id) ==
    LET real ==
            (IF form_.abhaRef # ""
             THEN << [system |-> "https://healthid.abdm.gov.in", value |-> form_.abhaRef,
                      type |-> [code |-> "PI", text |-> "ABHA Number"]] >>
             ELSE <<>>)
         \o (IF truthy(form_.selectedAbhaAddress)
             THEN << [system |-> "https://healthid.abdm.gov.in/address",
                      value |-> form_.selectedAbhaAddress.s,
                      type |-> [code |-> "PN", text |-> "ABHA Address"]] >>
             ELSE <<>>)
         \o (IF form_.mrn # <<>>
             THEN << [system |-> "http://hospital.example/mrn", value |-> form_.mrn,
                      type |-> [code |-> "MR", text |-> "MRN"]] >>
             ELSE <<>>)
    IN  IF Len(real) = 0
        THEN << [system |-> "urn:uuid", value |-> id,
                 type |-> [code |-> "PI", text |-> "generated-id"]] >>
        ELSE real

buildFhirPatient(form_, coin) ==
    LET id == patientId(form_, coin)
    IN  [ resourceType |-> "Patient",
          id |-> id,
          meta |-> [profile |-> <<NDHM_PATIENT_PROFILE>>],
          text |-> [status |-> "generated", div |-> <<form_.displayName>>],
          identifier |-> patientIdentifier(form_, id),
          name |-> <<[text |-> form_.displayName]>>,
          gender |-> IF form_.gender # <<>> THEN Str(form_.gender) ELSE Undefined,
          birthDate |-> IF form_.birthDate # <<>> THEN Str(form_.birthDate) ELSE Undefined,
          telecom |-> IF form_.mobile # ""
                      THEN <<[system |-> "phone", value |-> form_.mobile]>> ELSE <<>>,
          address |-> IF form_.address # "" THEN <<[text |-> form_.address]>> ELSE <<>> ]

(***************************************************************************)
(* buildPractitioner, App.js lines 157-178                                 *)
(***************************************************************************)
buildPractitioner(pract, coin) ==
    [ resourceType |-> "Practitioner",
      id |-> coin,
      meta |-> [profile |-> <<NDHM_PRACTITIONER_PROFILE>>],
      text |-> [status |-> "generated", div |-> <<pract.name>>],
      identifier |->
        << [system |-> "https://ndhm.in/practitioner/license", value |-> pract.license,
            type |-> [code |-> "MD", text |-> "Medical License number"]],
           [system |-> "https://your.system/login-id", value |-> pract.loginId,
            type |-> [code |-> "PN", text |-> "Login id"]] >>,
      name |-> <<[text |-> pract.name]>> ]

(***************************************************************************)
(* Observation builders, App.js lines 187-278                              *)
(***************************************************************************)
buildPhysicalActivityObs(patientId_, practitionerId, text, coin) ==
    LET shown == IF text # "" THEN text ELSE "Not provided"
    IN  [ resourceType |-> "Observation",
          id |-> coin,
          meta |-> [profile |-> <<OBS_PHYSICAL_PROFILE>>],
          status |-> "final",
          code |-> [coding |-> <<[system |-> "http://loinc.org", code |-> "68516-4"]>>,
                    text |-> "Physical activity"],
          subject |-> [reference |-> urnUuid(patientId_)],
          performer |-> <<[reference |-> urnUuid(practitionerId)]>>,
          valueString |-> shown,
          text |-> [status |-> "generated", div |-> <<shown>>] ]

buildGeneralAssessmentObs(patientId_, practitionerId, notes, pain, coin) ==
    LET textVal == IF notes # "" THEN notes ELSE "Not provided"
    IN  [ resourceType |-> "Observation",
          id |-> coin,
          meta |-> [profile |-> <<OBS_GENERAL_PROFILE>>],
          status |-> "final",
          code |-> [coding |-> <<[system |-> "http://loinc.org", code |-> "8693-4"]>>,
                    text |-> "General assessment"],
          subject |-> [reference |-> urnUuid(patientId_)],
          performer |-> <<[reference |-> urnUuid(practitionerId)]>>,
          valueCodeableConcept |-> [text |-> textVal],
          component |-> <<[code |-> [text |-> "Any current pain?"],
                           valueCodeableConcept |-> [text |-> IF pain THEN "Yes" ELSE "No"]]>>,
          text |-> [status |-> "generated", div |-> <<textVal>>] ]

\* a lifestyle value is a boolean or a string
Bool(b) == [t |-> "boolean", b |-> b]

buildLifestyleObs(patientId_, practitionerId, label, value, coin) ==
    LET v == IF value.t = "boolean" THEN (IF value.b THEN "Yes" ELSE "No")
             ELSE IF value.s # "" THEN value.s ELSE "Not provided"
    IN  [ resourceType |-> "Observation",
          id |-> coin,
          meta |-> [profile |-> <<OBS_LIFESTYLE_PROFILE>>],
          status |-> "final",
          code |-> [coding |-> <<[system |-> "http://snomed.info/sct", code |-> "229819007"]>>,
                    text |-> IF label # "" THEN label ELSE "Lifestyle"],
          subject |-> [reference |-> urnUuid(patientId_)],
          performer |-> <<[reference |-> urnUuid(practitionerId)]>>,
          valueCodeableConcept |-> [text |-> v],
          text |-> [status |-> "generated", div |-> <<label, ": ", v>>] ]

\* Number(quantity) for the texts a measurement field holds in the model;
\* NaN for a text that is no number
NaN == [t |-> "NaN"]

Number(quantity) ==
    CASE quantity = "72" -> Num(72)
      [] quantity = "120" -> Num(120)
      [] OTHER -> NaN

\* line 264 without the early return
vitalIsNeverAbsent(quantity) == FALSE

\* the early return of line 264
vitalIsAbsent(quantity) == quantity = ""

buildVitalObservation(patientId_, practitionerId, codeText, quantity, unit, loincCode, coin) ==
    IF vitalIsAbsent(quantity) THEN Null
    ELSE [ resourceType |-> "Observation",
           id |-> coin,
           meta |-> [profile |-> <<>>],
           status |-> "final",
           code |-> [coding |-> <<[system |-> "http://loinc.org", code |-> loincCode]>>,
                     text |-> codeText],
           subject |-> [reference |-> urnUuid(patientId_)],
           performer |-> <<[reference |-> urnUuid(practitionerId)]>>,
           valueQuantity |-> [value |-> Number(quantity), unit |-> unit,
                              system |-> "http://unitsofmeasure.org", code |-> unit],
           text |-> [status |-> "generated", div |-> <<codeText, ": ", quantity, " ", unit>>] ]

(***************************************************************************)
(* generateBundle, App.js lines 352-462                                    *)
(***************************************************************************)
MsgSelectPatient == "Please select a patient."

MsgSelectAbha == "Please select ABHA address."

MsgPractitioner == "Practitioner name and license required."

\* line 457 (its dash written in ASCII)
MsgGenerated == "Bundle generated - copy-paste into Inferno/validator. If any remaining validation errors appear, paste them and I'll patch them exactly."

\* lines 356-358 with the attester checked before the health identity
preconditionMessageAttesterFirst(form_, practitioner_) ==
    IF form_ = Null THEN MsgSelectPatient
    ELSE IF practitioner_.name = "" \/ practitioner_.license = "" THEN MsgPractitioner
    ELSE IF ~truthy(form_.selectedAbhaAddress) /\ form_.abhaRef = "" THEN MsgSelectAbha
    ELSE ""

\* lines 356-358 without the test of line 357
preconditionMessageWithoutIdentity(form_, practitioner_) ==
    IF form_ = Null THEN MsgSelectPatient
    ELSE IF practitioner_.name = "" \/ practitioner_.license = "" THEN MsgPractitioner
    ELSE ""

\* lines 356-358: the message of the first failed precondition, "" if none
preconditionMessage(form_, practitioner_) ==
    IF form_ = Null THEN MsgSelectPatient
    ELSE IF ~truthy(form_.selectedAbhaAddress) /\ form_.abhaRef = "" THEN MsgSelectAbha
    ELSE IF practitioner_.name = "" \/ practitioner_.license = "" THEN MsgPractitioner
    ELSE ""

\* lines 365-378: the builder calls in source order; the first three are made
\* unconditionally, the others under `if (value)`
vitalCalls(vitals_, body_) ==
    << [codeText |-> "Heart rate", quantity |-> vitals_.hr, unit |-> "beats/min",
        loincCode |-> "8867-4", guarded |-> FALSE],
       [codeText |-> "Systolic blood pressure", quantity |-> vitals_.systolic, unit |-> "mmHg",
        loincCode |-> "8480-6", guarded |-> FALSE],
       [codeText |-> "Diastolic blood pressure", quantity |-> vitals_.diastolic, unit |-> "mmHg",
        loincCode |-> "8462-4", guarded |-> FALSE],
       [codeText |-> "Body temperature", quantity |-> vitals_.temp, unit |-> "Cel",
        loincCode |-> "8310-5", guarded |-> TRUE],
       [codeText |-> "SpO2", quantity |-> vitals_.spo2, unit |-> "%",
        loincCode |-> "59408-5", guarded |-> TRUE],
       [codeText |-> "Height", quantity |-> body_.height, unit |-> "cm",
        loincCode |-> "8302-2", guarded |-> TRUE],
       [codeText |-> "Weight", quantity |-> body_.weight, unit |-> "kg",
        loincCode |-> "29463-7", guarded |-> TRUE],
       [codeText |-> "BMI", quantity |-> body_.bmi, unit |-> "kg/m2",
        loincCode |-> "39156-5", guarded |-> TRUE] >>

\* the observations pushed by lines 366-378, coining from the u-th identity on
RECURSIVE pushVitals(_, _, _, _)
pushVitals(calls, pid, prid, u) ==
    IF calls = <<>> THEN <<>>
    ELSE LET c == Head(calls)
             called == ~c.guarded \/ c.quantity # ""
             obs == IF called
                    THEN buildVitalObservation(pid, prid, c.codeText, c.quantity, c.unit,
                                               c.loincCode, uuidv4(u))
                    ELSE Null
         IN  IF obs # Null
             THEN <<obs>> \o pushVitals(Tail(calls), pid, prid, u + 1)
             ELSE pushVitals(Tail(calls), pid, prid, u)

\* line 390: the item is skipped
lifestyleSkipped(li) == li.label = "" /\ li.value.t = "string" /\ li.value.s = ""

\* lines 389-392 with one identity coined for the whole loop
RECURSIVE pushLifestyleOneIdentity(_, _, _, _)
pushLifestyleOneIdentity(items, pid, prid, u) ==
    IF items = <<>> THEN <<>>
    ELSE LET li == Head(items)
         IN  IF lifestyleSkipped(li) THEN pushLifestyleOneIdentity(Tail(items), pid, prid, u)
             ELSE <<buildLifestyleObs(pid, prid, IF li.label # "" THEN li.label ELSE "Lifestyle",
                                      li.value, uuidv4(u))>>
                  \o pushLifestyleOneIdentity(Tail(items), pid, prid, u)

\* lines 389-392
RECURSIVE pushLifestyle(_, _, _, _)
pushLifestyle(items, pid, prid, u) ==
    IF items = <<>> THEN <<>>
    ELSE LET li == Head(items)
         IN  IF lifestyleSkipped(li) THEN pushLifestyle(Tail(items), pid, prid, u)
             ELSE <<buildLifestyleObs(pid, prid, IF li.label # "" THEN li.label ELSE "Lifestyle",
                                      li.value, uuidv4(u))>>
                  \o pushLifestyle(Tail(items), pid, prid, u + 1)

\* Array.prototype.filter
filterSeq(xs, keep(_)) == SelectSeq(xs, keep)

references(obs) == [i \in 1..Len(obs) |-> [reference |-> urnUuid(obs[i].id)]]

\* line 398: o.valueQuantity is set
hasValueQuantity(o) == "valueQuantity" \in DOMAIN o

\* line 417: the observation declares the lifestyle profile
hasLifestyleProfile(o) == \E i \in 1..Len(o.meta.profile) : o.meta.profile[i] = OBS_LIFESTYLE_PROFILE

narrative(words) == [status |-> "generated", div |-> words]

\* lines 398-403
vitalsSection(observations) ==
    LET vitalsEntries == references(filterSeq(observations, hasValueQuantity))
    IN  IF Len(vitalsEntries) # 0
        THEN [title |-> "Vitals", entry |-> vitalsEntries]
        ELSE [title |-> "Vitals", text |-> narrative("No vitals recorded")]

\* lines 405-409
physicalSection(physObs) ==
    IF physObs # Null
    THEN [title |-> "Physical Activity", entry |-> <<[reference |-> urnUuid(physObs.id)]>>,
          text |-> narrative("Physical activity")]
    ELSE [title |-> "Physical Activity", text |-> narrative("No physical activity recorded")]

\* lines 411-415
generalSection(genObs) ==
    IF genObs # Null
    THEN [title |-> "General Assessment", entry |-> <<[reference |-> urnUuid(genObs.id)]>>,
          text |-> narrative("General assessment")]
    ELSE [title |-> "General Assessment", text |-> narrative("No general assessment recorded")]

\* lines 417-422 without the test of the list's length
lifestyleSectionAlwaysList(observations) ==
    [title |-> "Lifestyle",
     entry |-> references(filterSeq(observations, hasLifestyleProfile)),
     text |-> narrative("Lifestyle")]

\* lines 417-422
lifestyleSection(observations) ==
    LET lifestyleEntries == references(filterSeq(observations, hasLifestyleProfile))
    IN  IF Len(lifestyleEntries) # 0
        THEN [title |-> "Lifestyle", entry |-> lifestyleEntries, text |-> narrative("Lifestyle")]
        ELSE [title |-> "Lifestyle", text |-> narrative("No lifestyle observations recorded")]

\* lines 424-437
buildComposition(compId, patientRes, practitionerRes, displayName, practitionerName, sections) ==
    [ resourceType |-> "Composition",
      id |-> compId,
      meta |-> [profile |-> <<NDHM_WELLNESS_COMPOSITION>>],
      status |-> "final",
      type |-> [coding |-> <<[system |-> "http://loinc.org", code |-> "11502-2"]>>,
                text |-> "Wellness Record"],
      subject |-> [reference |-> urnUuid(patientRes.id), display |-> displayName],
      author |-> <<[reference |-> urnUuid(practitionerRes.id), display |-> practitionerName]>>,
      attester |-> <<[mode |-> "official", party |-> [reference |-> urnUuid(practitionerRes.id)]]>>,
      title |-> "Wellness Record",
      section |-> sections,
      text |-> narrative(<<"Wellness Record - ", displayName>>) ]

\* lines 449-454 with the attester entry forgotten
bundleEntriesWithoutAttester(composition, patientRes, practitionerRes, observations) ==
    << [fullUrl |-> urnUuid(composition.id), resource |-> composition],
       [fullUrl |-> urnUuid(patientRes.id), resource |-> patientRes] >>
    \o [i \in 1..Len(observations) |->
            [fullUrl |-> urnUuid(observations[i].id), resource |-> observations[i]]]

\* lines 449-454 with the person pushed before the header
bundleEntriesPersonFirst(composition, patientRes, practitionerRes, observations) ==
    << [fullUrl |-> urnUuid(patientRes.id), resource |-> patientRes],
       [fullUrl |-> urnUuid(composition.id), resource |-> composition],
       [fullUrl |-> urnUuid(practitionerRes.id), resource |-> practitionerRes] >>
    \o [i \in 1..Len(observations) |->
            [fullUrl |-> urnUuid(observations[i].id), resource |-> observations[i]]]

\* lines 449-454
bundleEntries(composition, patientRes, practitionerRes, observations) ==
    << [fullUrl |-> urnUuid(composition.id), resource |-> composition],
       [fullUrl |-> urnUuid(patientRes.id), resource |-> patientRes],
       [fullUrl |-> urnUuid(practitionerRes.id), resource |-> practitionerRes] >>
    \o [i \in 1..Len(observations) |->
            [fullUrl |-> urnUuid(observations[i].id), resource |-> observations[i]]]

\* JSON.stringify: a property whose value is undefined is left out, NaN is null
jsonDrops(r, k) ==
    r.resourceType = "Patient" /\ k \in {"gender", "birthDate"} /\ r[k].t = "undefined"

jsonResource(r) ==
    LET kept == [k \in {k \in DOMAIN r : ~jsonDrops(r, k)} |-> r[k]]
    IN  IF hasValueQuantity(kept) /\ kept.valueQuantity.value.t = "NaN"
        THEN [kept EXCEPT !.valueQuantity.value = Null]
        ELSE kept

JSONstringify(bundle) ==
    [bundle EXCEPT !.entry =
        [i \in 1..Len(bundle.entry) |->
            [bundle.entry[i] EXCEPT !.resource = jsonResource(bundle.entry[i].resource)]]]

\* lines 360-456 for inputs that pass the preconditions; u is the number of
\* identities coined before the run
composeBundle(form_, practitioner_, vitals_, body_, physicalText_, generalNotes_, generalPain_, lifestyle_, u) ==
    LET patientRes == buildFhirPatient(form_, uuidv4(u))
        u1 == IF patientReusesId(form_) THEN u ELSE u + 1
        practitionerRes == buildPractitioner(practitioner_, uuidv4(u1))
        vitalObs == pushVitals(vitalCalls(vitals_, body_), patientRes.id, practitionerRes.id, u1 + 1)
        u2 == u1 + 1 + Len(vitalObs)
        physObs == buildPhysicalActivityObs(patientRes.id, practitionerRes.id,
                        IF physicalText_ # "" THEN physicalText_ ELSE "Not provided", uuidv4(u2))
        genObs == buildGeneralAssessmentObs(patientRes.id, practitionerRes.id,
                        IF generalNotes_ # "" THEN generalNotes_ ELSE "Not provided",
                        generalPain_, uuidv4(u2 + 1))
        lifeObs == pushLifestyle(lifestyle_, patientRes.id, practitionerRes.id, u2 + 2)
        observations == vitalObs \o <<physObs, genObs>> \o lifeObs
        u3 == u2 + 2 + Len(lifeObs)
        compId == uuidv4(u3)
        sections == << vitalsSection(observations), physicalSection(physObs),
                       generalSection(genObs), lifestyleSection(observations) >>
        composition == buildComposition(compId, patientRes, practitionerRes,
                                        form_.displayName, practitioner_.name, sections)
        bundle == [ resourceType |-> "Bundle",
                    type |-> "document",
                    id |-> uuidv4(u3 + 1),
                    identifier |-> [system |-> "https://nrces.in/ids/bundles",
                                    value |-> uuidv4(u3 + 2)],
                    entry |-> bundleEntries(composition, patientRes, practitionerRes,
                                            observations) ]
    IN  [bundleJson |-> JSONstringify(bundle), message |-> MsgGenerated, uuidCount |-> u3 + 3]

generateBundle(form_, practitioner_, vitals_, body_, physicalText_, generalNotes_, generalPain_, lifestyle_, u) ==
    LET refusal == preconditionMessage(form_, practitioner_)
    IN  IF refusal # ""
        THEN [bundleJson |-> NoBundle, message |-> refusal, uuidCount |-> u]
        ELSE composeBundle(form_, practitioner_, vitals_, body_, physicalText_,
                           generalNotes_, generalPain_, lifestyle_, u)

(***************************************************************************)
(* The React component App, App.js lines 281-613.  An action is one event  *)
(* with the state updates it queues and the effects React runs after the   *)
(* render they cause.                                                      *)
(***************************************************************************)
MaxSteps == 4

MaxLifestyle == 2

\* line 317 (its dash written in ASCII)
MsgLoadFailed == "Failed to load patients.json - place the file in public/patients.json and reload."

NotCalled == [t |-> "not called"]

\* the form both setForm calls of lines 313 and 325 build from a list entry
withDefaultAddress(f) ==
    [f EXCEPT !.selectedAbhaAddress =
        Str(IF f.abhaAddresses # <<>> THEN f.abhaAddresses[1]
            ELSE IF f.abhaRef # "" THEN f.abhaRef ELSE "")]

\* useEffect(..., [selectedIndex, forms]), lines 322-327: the form after the
\* effect has run, given the form before it
formSyncEffect(selectedIndex_, forms_, form_) ==
    IF selectedIndex_ >= 0 /\ selectedIndex_ < Len(forms_)
    THEN withDefaultAddress(forms_[selectedIndex_ + 1])
    ELSE form_

\* one more event is handled
Tick == steps < MaxSteps /\ steps' = steps + 1

AppInit ==
    /\ apiPatients = [t |-> "array", items |-> <<>>]
    /\ forms = <<>>
    /\ selectedIndex = -1
    /\ form = Null
    /\ practitioner = GLOBAL_PRACTITIONER
    /\ physicalText = ""
    /\ generalNotes = ""
    /\ generalPain = FALSE
    /\ lifestyle = <<[label |-> "Smoking", value |-> Bool(FALSE)]>>
    /\ vitals = [hr |-> "", systolic |-> "", diastolic |-> "", temp |-> "", spo2 |-> ""]
    /\ body = [height |-> "", weight |-> "", bmi |-> ""]
    /\ bundleJson = NoBundle
    /\ message = ""
    /\ loadState = "pending"
    /\ uuidCount = 0
    /\ steps = 0

Init == AppInit /\ call = NotCalled

\* the load of lines 302-320 were its response to arrive more than once
LoadPatientsAtAnyTime(response) ==
    /\ Tick
    /\ IF response.t = "error"
       THEN \* fetch or res.json() rejects
            /\ loadState' = "failed"
            /\ message' = MsgLoadFailed
            /\ UNCHANGED <<apiPatients, forms, selectedIndex, form>>
       ELSE LET arr == IF response.t = "array" THEN response
                       ELSE IF response.data.t = "undefined" THEN [t |-> "array", items |-> <<>>]
                       ELSE response.data
            IN  IF arr.t # "array"
                THEN \* arr.map is not a function: thrown after setApiPatients(arr)
                     /\ loadState' = "failed"
                     /\ apiPatients' = arr
                     /\ message' = MsgLoadFailed
                     /\ UNCHANGED <<forms, selectedIndex, form>>
                ELSE LET mapped == [i \in 1..Len(arr.items) |-> mapApiToForm(arr.items[i])]
                         index == IF Len(mapped) > 0 THEN 0 ELSE selectedIndex
                         set == IF Len(mapped) > 0 THEN withDefaultAddress(mapped[1]) ELSE form
                     IN  /\ loadState' = "done"
                         /\ apiPatients' = arr
                         /\ forms' = mapped
                         /\ selectedIndex' = index
                         /\ form' = formSyncEffect(index, mapped, set)
                         /\ UNCHANGED message
    /\ UNCHANGED <<practitioner, physicalText, generalNotes, generalPain, lifestyle,
                   vitals, body, bundleJson, uuidCount, call>>

\* lines 302-320: the response of fetch("/patients.json") arrives
LoadPatients(response) ==
    /\ Tick
    /\ loadState = "pending"
    /\ IF response.t = "error"
       THEN \* fetch or res.json() rejects
            /\ loadState' = "failed"
            /\ message' = MsgLoadFailed
            /\ UNCHANGED <<apiPatients, forms, selectedIndex, form>>
       ELSE LET arr == IF response.t = "array" THEN response
                       ELSE IF response.data.t = "undefined" THEN [t |-> "array", items |-> <<>>]
                       ELSE response.data
            IN  IF arr.t # "array"
                THEN \* arr.map is not a function: thrown after setApiPatients(arr)
                     /\ loadState' = "failed"
                     /\ apiPatients' = arr
                     /\ message' = MsgLoadFailed
                     /\ UNCHANGED <<forms, selectedIndex, form>>
                ELSE LET mapped == [i \in 1..Len(arr.items) |-> mapApiToForm(arr.items[i])]
                         index == IF Len(mapped) > 0 THEN 0 ELSE selectedIndex
                         set == IF Len(mapped) > 0 THEN withDefaultAddress(mapped[1]) ELSE form
                     IN  /\ loadState' = "done"
                         /\ apiPatients' = arr
                         /\ forms' = mapped
                         /\ selectedIndex' = index
                         /\ form' = formSyncEffect(index, mapped, set)
                         /\ UNCHANGED message
    /\ UNCHANGED <<practitioner, physicalText, generalNotes, generalPain, lifestyle,
                   vitals, body, bundleJson, uuidCount, call>>

\* line 479: the patient select changes
SelectPatient(i) ==
    /\ Tick
    /\ i \in 0..(Len(forms) - 1)
    /\ i # selectedIndex
    /\ selectedIndex' = i
    /\ form' = formSyncEffect(i, forms, form)
    /\ UNCHANGED <<apiPatients, forms, practitioner, physicalText, generalNotes, generalPain,
                   lifestyle, vitals, body, bundleJson, message, loadState, uuidCount, call>>

\* lines 329-336, followed by the effect of lines 322-327 (forms changed)
updateFormField(field, value) ==
    /\ Tick
    /\ form # Null
    /\ form[field] # value
    /\ LET edited == [form EXCEPT ![field] = value]
           copy == IF selectedIndex >= 0 /\ selectedIndex < Len(forms)
                   THEN [forms EXCEPT ![selectedIndex + 1][field] = value]
                   ELSE forms
       IN  /\ forms' = copy
           /\ form' = formSyncEffect(selectedIndex, copy, edited)
    /\ UNCHANGED <<apiPatients, selectedIndex, practitioner, physicalText, generalNotes,
                   generalPain, lifestyle, vitals, body, bundleJson, message, loadState,
                   uuidCount, call>>

\* lines 537-538
SetPractitioner(field, value) ==
    /\ Tick
    /\ practitioner[field] # value
    /\ practitioner' = [practitioner EXCEPT ![field] = value]
    /\ UNCHANGED <<apiPatients, forms, selectedIndex, form, physicalText, generalNotes,
                   generalPain, lifestyle, vitals, body, bundleJson, message, loadState,
                   uuidCount, call>>

\* lines 548-552
SetVitals(field, value) ==
    /\ Tick
    /\ vitals[field] # value
    /\ vitals' = [vitals EXCEPT ![field] = value]
    /\ UNCHANGED <<apiPatients, forms, selectedIndex, form, practitioner, physicalText,
                   generalNotes, generalPain, lifestyle, body, bundleJson, message,
                   loadState, uuidCount, call>>

\* lines 554-556
SetBody(field, value) ==
    /\ Tick
    /\ body[field] # value
    /\ body' = [body EXCEPT ![field] = value]
    /\ UNCHANGED <<apiPatients, forms, selectedIndex, form, practitioner, physicalText,
                   generalNotes, generalPain, lifestyle, vitals, bundleJson, message,
                   loadState, uuidCount, call>>

\* line 564
SetPhysicalText(value) ==
    /\ Tick
    /\ physicalText # value
    /\ physicalText' = value
    /\ UNCHANGED <<apiPatients, forms, selectedIndex, form, practitioner, generalNotes,
                   generalPain, lifestyle, vitals, body, bundleJson, message, loadState,
                   uuidCount, call>>

\* line 570
SetGeneralNotes(value) ==
    /\ Tick
    /\ generalNotes # value
    /\ generalNotes' = value
    /\ UNCHANGED <<apiPatients, forms, selectedIndex, form, practitioner, physicalText,
                   generalPain, lifestyle, vitals, body, bundleJson, message, loadState,
                   uuidCount, call>>

\* line 571
SetGeneralPain ==
    /\ Tick
    /\ generalPain' = ~generalPain
    /\ UNCHANGED <<apiPatients, forms, selectedIndex, form, practitioner, physicalText,
                   generalNotes, lifestyle, vitals, body, bundleJson, message, loadState,
                   uuidCount, call>>

\* lines 338-340
addLifestyle ==
    /\ Tick
    /\ Len(lifestyle) < MaxLifestyle
    /\ lifestyle' = Append(lifestyle, [label |-> "", value |-> Str("")])
    /\ UNCHANGED <<apiPatients, forms, selectedIndex, form, practitioner, physicalText,
                   generalNotes, generalPain, vitals, body, bundleJson, message, loadState,
                   uuidCount, call>>

\* lines 341-343; the button is disabled for a list of one item (line 586)
removeLifestyle(i) ==
    /\ Tick
    /\ i \in 1..Len(lifestyle)
    /\ Len(lifestyle) > 1
    /\ lifestyle' = [k \in 1..(Len(lifestyle) - 1) |->
                        IF k < i THEN lifestyle[k] ELSE lifestyle[k + 1]]
    /\ UNCHANGED <<apiPatients, forms, selectedIndex, form, practitioner, physicalText,
                   generalNotes, generalPain, vitals, body, bundleJson, message, loadState,
                   uuidCount, call>>

\* lines 344-350
updateLifestyle(i, field, val) ==
    /\ Tick
    /\ i \in 1..Len(lifestyle)
    /\ lifestyle[i][field] # val
    /\ lifestyle' = [lifestyle EXCEPT ![i][field] = val]
    /\ UNCHANGED <<apiPatients, forms, selectedIndex, form, practitioner, physicalText,
                   generalNotes, generalPain, vitals, body, bundleJson, message, loadState,
                   uuidCount, call>>

\* lines 352-462
GenerateBundle ==
    LET out == generateBundle(form, practitioner, vitals, body, physicalText,
                              generalNotes, generalPain, lifestyle, uuidCount)
    IN  /\ Tick
        /\ UNCHANGED <<apiPatients, forms, selectedIndex, form, practitioner, physicalText,
                       generalNotes, generalPain, lifestyle, vitals, body, loadState, call>>
        /\ bundleJson' = out.bundleJson
        /\ message' = out.message
        /\ uuidCount' = out.uuidCount

\* line 595 clearing the message only
ResetPreviewMessageOnly ==
    /\ Tick
    /\ message' = ""
    /\ UNCHANGED <<apiPatients, forms, selectedIndex, form, practitioner, physicalText,
                   generalNotes, generalPain, lifestyle, vitals, body, bundleJson, loadState,
                   uuidCount, call>>

\* line 595
ResetPreview ==
    /\ Tick
    /\ bundleJson' = NoBundle
    /\ message' = ""
    /\ UNCHANGED <<apiPatients, forms, selectedIndex, form, practitioner, physicalText,
                   generalNotes, generalPain, lifestyle, vitals, body, loadState, uuidCount, call>>

(***************************************************************************)
(* Inputs: the feed records, the responses of the load and the values the  *)
(* user types or picks.                                                    *)
(***************************************************************************)
\* text literals as character sequences
GENDER_FEMALE == <<"F", "e", "m", "a", "l", "e">>

GENDER_M == <<"M">>

GENDER_OTHER == <<"O", "T", "H", "E", "R">>

GENDER_MALE_LC == <<"m", "a", "l", "e">>

GENDER_FEMALE_LC == <<"f", "e", "m", "a", "l", "e">>

GENDER_OTHER_LC == <<"o", "t", "h", "e", "r">>

GENDER_UNKNOWN_LC == <<"u", "n", "k", "n", "o", "w", "n">>

DOB_DMY == <<"1", "5", "-", "0", "8", "-", "1", "9", "9", "0">>

DOB_ISO == <<"1", "9", "9", "0", "-", "0", "8", "-", "1", "5">>

DOB_SLASH == <<"5", "/", "8", "/", "1", "9", "9", "0">>

DOB_COMPACT == <<"1", "5", "0", "8", "1", "9", "9", "0">>

DOB_TWO_PARTS == <<"1", "5", "-", "0", "8">>

\* a version-4 identifier in upper case, a version-1 identifier, and strings
\* the pattern of line 38 rejects
SeedUpperV4 ==
    Rep("A", 8) \o <<"-">> \o Rep("B", 4) \o <<"-", "4">> \o Rep("C", 3)
        \o <<"-", "A">> \o Rep("D", 3) \o <<"-">> \o Rep("E", 12)

SeedLowerV1 ==
    Rep("a", 8) \o <<"-">> \o Rep("b", 4) \o <<"-", "1">> \o Rep("c", 3)
        \o <<"-", "9">> \o Rep("d", 3) \o <<"-">> \o Rep("f", 12)

SeedVersion6 ==
    Rep("a", 8) \o <<"-">> \o Rep("b", 4) \o <<"-", "6">> \o Rep("c", 3)
        \o <<"-", "8">> \o Rep("d", 3) \o <<"-">> \o Rep("e", 12)

SeedBadVariant ==
    Rep("a", 8) \o <<"-">> \o Rep("b", 4) \o <<"-", "4">> \o Rep("c", 3)
        \o <<"-", "c">> \o Rep("d", 3) \o <<"-">> \o Rep("e", 12)

SeedNotHex ==
    Rep("g", 8) \o <<"-">> \o Rep("b", 4) \o <<"-", "4">> \o Rep("c", 3)
        \o <<"-", "8">> \o Rep("d", 3) \o <<"-">> \o Rep("e", 12)

SeedShort == <<"u", "s", "e", "r", "-", "1", "7">>

NoAddresses == Undefined

\* Scenario A of the specification: dob "15-08-1990", abha_ref "AB1234"
RecordA ==
    [ name |-> "Asha", gender |-> GENDER_FEMALE, dob |-> Str(DOB_DMY),
      mobile |-> "9999", address |-> "Pune", abha_ref |-> "AB1234",
      abha_addresses |-> NoAddresses, user_ref_id |-> Str(SeedUpperV4), user_id |-> 7 ]

\* no health id, a list of alternate addresses, an invalid internal reference
RecordB ==
    [ name |-> "Ravi", gender |-> GENDER_M, dob |-> Str(DOB_ISO),
      mobile |-> "", address |-> "", abha_ref |-> "",
      abha_addresses |-> [t |-> "array", items |->
          << Str("ravi@abdm"), [t |-> "object", address |-> "ravi@sbx", json |-> "{..}"],
             Str("ravi@abdm"), [t |-> "null"] >>],
      user_ref_id |-> Str(SeedShort), user_id |-> 12 ]

\* neither a health id nor an address, no internal reference, no record number
RecordC ==
    [ name |-> "", gender |-> <<>>, dob |-> Undefined,
      mobile |-> "", address |-> "", abha_ref |-> "",
      abha_addresses |-> NoAddresses, user_ref_id |-> Undefined, user_id |-> 0 ]

\* a version-1 internal reference
RecordD ==
    [ name |-> "Dev", gender |-> GENDER_OTHER, dob |-> Str(DOB_SLASH),
      mobile |-> "", address |-> "", abha_ref |-> "CD5678",
      abha_addresses |-> [t |-> "array", items |-> <<>>],
      user_ref_id |-> Str(SeedLowerV1), user_id |-> 0 ]

\* an internal reference that is a number
RecordE ==
    [ name |-> "Esha", gender |-> GENDER_FEMALE, dob |-> Str(DOB_ISO),
      mobile |-> "", address |-> "", abha_ref |-> "EF9012",
      abha_addresses |-> NoAddresses, user_ref_id |-> Num(17), user_id |-> 3 ]

Feeds == { <<>>, <<RecordA, RecordB>>, <<RecordC, RecordD>> }

Responses ==
    { [t |-> "error"] }
    \cup { [t |-> "array", items |-> f] : f \in Feeds }
    \cup { [t |-> "object", data |-> [t |-> "array", items |-> <<RecordE>>]],
           [t |-> "object", data |-> [t |-> "other"]] }

\* the option values of the select of lines 520-525
abhaOptions(form_) ==
    {""} \cup (IF form_.abhaAddresses # <<>>
               THEN {form_.abhaAddresses[i] : i \in 1..Len(form_.abhaAddresses)}
               ELSE IF form_.abhaRef # "" THEN {form_.abhaRef} ELSE {})

\* the edits of the person card, lines 493-525
FormEdits ==
    IF form = Null THEN {}
    ELSE { <<"displayName", v>> : v \in {"", "Asha K"} }
         \cup { <<"gender", v>> : v \in {<<>>, GENDER_MALE_LC, GENDER_FEMALE_LC,
                                         GENDER_OTHER_LC, GENDER_UNKNOWN_LC} }
         \cup { <<"birthDate", v>> : v \in {<<>>, DOB_ISO} }
         \cup { <<"mobile", v>> : v \in {"", "9999"} }
         \cup { <<"address", v>> : v \in {"", "Pune"} }
         \cup { <<"abhaRef", v>> : v \in {"", "AB1234"} }
         \cup { <<"mrn", v>> : v \in {<<>>, <<"4", "2">>} }
         \cup { <<"selectedAbhaAddress", Str(v)>> : v \in abhaOptions(form) }

PractitionerEdits ==
    { <<"name", v>> : v \in {"", "Dr. XYZ"} } \cup { <<"license", v>> : v \in {"", "LIC-9"} }

MeasurementTexts == {"", "72"}

VitalFields == {"hr", "systolic", "diastolic", "temp", "spo2"}

BodyFields == {"height", "weight", "bmi"}

\* the measurement inputs the user types into, one step at a time
TypedVitalFields == {"hr", "temp"}

TypedBodyFields == {"bmi"}

LifestyleEdits ==
    { <<"label", v>> : v \in {"", "Diet"} }
    \cup { <<"value", v>> : v \in {Bool(TRUE), Bool(FALSE), Str(""), Str("daily")} }

Next ==
    \/ \E response \in Responses : LoadPatients(response)
    \/ \E i \in 0..(Len(forms) - 1) : SelectPatient(i)
    \/ \E e \in FormEdits : updateFormField(e[1], e[2])
    \/ \E e \in PractitionerEdits : SetPractitioner(e[1], e[2])
    \/ \E f \in TypedVitalFields, v \in MeasurementTexts : SetVitals(f, v)
    \/ \E f \in TypedBodyFields, v \in MeasurementTexts : SetBody(f, v)
    \/ \E v \in {"", "Walks daily"} : SetPhysicalText(v)
    \/ \E v \in {"", "Well"} : SetGeneralNotes(v)
    \/ SetGeneralPain
    \/ addLifestyle
    \/ \E i \in 1..Len(lifestyle) : removeLifestyle(i)
    \/ \E i \in 1..Len(lifestyle), e \in LifestyleEdits : updateLifestyle(i, e[1], e[2])
    \/ GenerateBundle
    \/ ResetPreview

Spec == Init /\ [][Next]_vars

(***************************************************************************)
(* Generation on its own: the component after the load, with the inputs    *)
(* of generateBundle drawn from the values the events above can leave in   *)
(* the state, and generate pressed repeatedly.                             *)
(***************************************************************************)
\* the person state after a feed of one record has loaded
loadedPerson(record) ==
    [ apiPatients |-> [t |-> "array", items |-> <<record>>],
      forms |-> <<mapApiToForm(record)>>,
      selectedIndex |-> 0,
      form |-> withDefaultAddress(mapApiToForm(record)),
      loadState |-> "done" ]

\* ... and after updateFormField(field, value) on it
editedPerson(record, field, value) ==
    LET copy == <<[mapApiToForm(record) EXCEPT ![field] = value]>>
    IN  [loadedPerson(record) EXCEPT !.forms = copy, !.form = withDefaultAddress(copy[1])]

GenPersons ==
    { [apiPatients |-> [t |-> "array", items |-> <<>>], forms |-> <<>>,
       selectedIndex |-> -1, form |-> Null, loadState |-> "pending"] }
    \cup { loadedPerson(r) : r \in {RecordA, RecordB, RecordC, RecordD, RecordE} }
    \cup { editedPerson(RecordA, "mrn", <<>>), editedPerson(RecordD, "abhaRef", "") }

GenPractitioners ==
    { GLOBAL_PRACTITIONER, [GLOBAL_PRACTITIONER EXCEPT !.name = ""],
      [GLOBAL_PRACTITIONER EXCEPT !.license = ""] }

GenTexts ==
    { [physicalText |-> "", generalNotes |-> "", generalPain |-> FALSE],
      [physicalText |-> "Walks daily", generalNotes |-> "Well", generalPain |-> TRUE] }

NoMeasurements ==
    [ vitals |-> [hr |-> "", systolic |-> "", diastolic |-> "", temp |-> "", spo2 |-> ""],
      body |-> [height |-> "", weight |-> "", bmi |-> ""] ]

SomeMeasurements ==
    [ vitals |-> [hr |-> "abc", systolic |-> "120", diastolic |-> "", temp |-> "", spo2 |-> "72"],
      body |-> [height |-> "", weight |-> "72", bmi |-> ""] ]

AllMeasurements ==
    { [vitals |-> v, body |-> b] : v \in [VitalFields -> MeasurementTexts],
                                   b \in [BodyFields -> MeasurementTexts] }

LifestyleItems ==
    { [label |-> "Smoking", value |-> Bool(FALSE)], [label |-> "", value |-> Str("")],
      [label |-> "", value |-> Bool(TRUE)], [label |-> "Diet", value |-> Str("daily")],
      [label |-> "Diet", value |-> Str("")] }

LifestyleLists == UNION { [1..n -> LifestyleItems] : n \in 1..MaxLifestyle }

DefaultLifestyle == <<[label |-> "Smoking", value |-> Bool(FALSE)]>>

GenInputs ==
    { [person |-> p, practitioner |-> pr, texts |-> t, measurements |-> m,
       lifestyle |-> DefaultLifestyle] :
         p \in GenPersons, pr \in GenPractitioners, t \in GenTexts,
         m \in {NoMeasurements, SomeMeasurements} }
    \cup { [person |-> loadedPerson(RecordA), practitioner |-> GLOBAL_PRACTITIONER,
            texts |-> t, measurements |-> m, lifestyle |-> l] :
         t \in GenTexts, m \in AllMeasurements,
         l \in {DefaultLifestyle, <<[label |-> "", value |-> Str("")]>>} }
    \cup { [person |-> loadedPerson(RecordB), practitioner |-> GLOBAL_PRACTITIONER,
            texts |-> t, measurements |-> m, lifestyle |-> l] :
         t \in GenTexts, m \in {NoMeasurements, SomeMeasurements}, l \in LifestyleLists }

InitGen ==
    \E in \in GenInputs :
        /\ apiPatients = in.person.apiPatients
        /\ forms = in.person.forms
        /\ selectedIndex = in.person.selectedIndex
        /\ form = in.person.form
        /\ loadState = in.person.loadState
        /\ practitioner = in.practitioner
        /\ physicalText = in.texts.physicalText
        /\ generalNotes = in.texts.generalNotes
        /\ generalPain = in.texts.generalPain
        /\ lifestyle = in.lifestyle
        /\ vitals = in.measurements.vitals
        /\ body = in.measurements.body
        /\ bundleJson = NoBundle
        /\ message = ""
        /\ uuidCount = 0
        /\ steps = 0
        /\ call = NotCalled

NextGen == GenerateBundle

SpecGen == InitGen /\ [][NextGen]_vars

(***************************************************************************)
(* The pure functions on their own: one call of one function on an         *)
(* argument drawn from a bounded set.                                      *)
(***************************************************************************)
DateParts == { <<>>, <<"1">>, <<"1", "5">>, <<"0", "8">>, <<"1", "9", "9", "0">>,
               <<"1", "9", "9">>, <<"a", "b">>, <<"a", "b", "c", "d">>, <<"1", "2", "3">> }

DateSeparators == {"-", "/"}

DateInputs ==
    { Str(a \o <<s1>> \o b \o <<s2>> \o c) :
        a \in DateParts, b \in DateParts, c \in DateParts,
        s1 \in DateSeparators, s2 \in DateSeparators }
    \cup { Undefined, Str(<<>>), Str(DOB_ISO), Str(<<" ">> \o DOB_DMY \o <<" ">>),
           Str(DOB_COMPACT), Str(DOB_TWO_PARTS), Str(DOB_DMY \o <<"-", "1">>) }

PatientForms ==
    { [withDefaultAddress(mapApiToForm(RecordC)) EXCEPT
          !.abhaRef = a, !.selectedAbhaAddress = sel, !.mrn = m, !.resourceId = r] :
        a \in {"", "AB1234"},
        sel \in {Undefined, Str(""), Str("asha@abdm")},
        m \in {<<>>, <<"4", "2">>},
        r \in {<<>>, toLowerCase(SeedUpperV4), SeedShort} }

\* the items of a nested address list: null, strings, objects with and
\* without an address property, and a number
AddressItems ==
    { Null, Str(""), Str("a@abdm"), Str("b@abdm"),
      [t |-> "object", address |-> "a@abdm", json |-> "{address:a@abdm}"],
      [t |-> "object", address |-> "", json |-> "{handle:c}"],
      [t |-> "number"] }

MaxAddressItems == 3

RECURSIVE AddressLists(_)
AddressLists(n) ==
    IF n = 0 THEN { <<>> }
    ELSE AddressLists(n - 1)
         \cup { Append(l, it) : l \in { k \in AddressLists(n - 1) : Len(k) = n - 1 },
                                it \in AddressItems }

\* raw records whose nested list is absent, not list-shaped or a list
AddressRecords ==
    { [RecordC EXCEPT !.abha_ref = ref, !.abha_addresses = raw] :
        ref \in {"", "AB1234"},
        raw \in {Undefined, [t |-> "object"]}
                \cup { [t |-> "array", items |-> l] : l \in AddressLists(MaxAddressItems) } }

\* the gender strings of raw records: absent, the four codes in several
\* letter cases, and one-letter abbreviations
GenderInputs ==
    { <<>>, GENDER_FEMALE, GENDER_M, GENDER_OTHER, GENDER_MALE_LC, GENDER_FEMALE_LC,
      GENDER_OTHER_LC, GENDER_UNKNOWN_LC, <<"F">>, <<"U", "n", "k", "n", "o", "w", "n">> }

RawRecords ==
    { [r EXCEPT !.gender = g] :
        r \in {RecordA, RecordB, RecordC, RecordD, RecordE}, g \in GenderInputs }

InitCalls ==
    /\ AppInit
    /\ \/ \E v \in DateInputs : call = [fn |-> "ddmmyyyyToISO", arg |-> v, done |-> FALSE]
       \/ \E f \in PatientForms, n \in {0, 5} :
            call = [fn |-> "buildFhirPatient", arg |-> f, coin |-> n, done |-> FALSE]
       \/ \E r \in AddressRecords :
            call = [fn |-> "extractAbhaAddresses", arg |-> r, done |-> FALSE]
       \/ \E r \in RawRecords :
            call = [fn |-> "mapApiToForm", arg |-> r, done |-> FALSE]

CallDdmmyyyyToISO ==
    /\ call.fn = "ddmmyyyyToISO" /\ ~call.done
    /\ call' = [fn |-> call.fn, arg |-> call.arg, done |-> TRUE, ret |-> ddmmyyyyToISO(call.arg)]
    /\ UNCHANGED appVars

CallBuildFhirPatient ==
    /\ call.fn = "buildFhirPatient" /\ ~call.done
    /\ call' = [fn |-> call.fn, arg |-> call.arg, coin |-> call.coin, done |-> TRUE,
                ret |-> buildFhirPatient(call.arg, uuidv4(call.coin))]
    /\ UNCHANGED appVars

CallExtractAbhaAddresses ==
    /\ call.fn = "extractAbhaAddresses" /\ ~call.done
    /\ call' = [fn |-> call.fn, arg |-> call.arg, done |-> TRUE,
                ret |-> extractAbhaAddresses(call.arg)]
    /\ UNCHANGED appVars

CallMapApiToForm ==
    /\ call.fn = "mapApiToForm" /\ ~call.done
    /\ call' = [fn |-> call.fn, arg |-> call.arg, done |-> TRUE, ret |-> mapApiToForm(call.arg)]
    /\ UNCHANGED appVars

NextCalls ==
    \/ CallDdmmyyyyToISO
    \/ CallBuildFhirPatient
    \/ CallExtractAbhaAddresses
    \/ CallMapApiToForm

SpecCalls == InitCalls /\ [][NextCalls]_vars

(***************************************************************************)
(* Properties of generated bundles (SpecGen)                               *)
(***************************************************************************)
Generated == bundleJson # NoBundle

Entries == bundleJson.entry

EntriesOfType(type) == SelectSeq(Entries, LAMBDA e : e.resource.resourceType = type)

Header == EntriesOfType("Composition")[1].resource

Person == EntriesOfType("Patient")[1].resource

ObservationEntries == EntriesOfType("Observation")

SeqRange(xs) == {xs[i] : i \in 1..Len(xs)}

SectionReferences(section) ==
    IF "entry" \in DOMAIN section THEN {e.reference : e \in SeqRange(section.entry)} ELSE {}

\* every cross-reference the bundle carries
CrossReferences ==
    {Header.subject.reference}
    \cup {a.reference : a \in SeqRange(Header.author)}
    \cup {a.party.reference : a \in SeqRange(Header.attester)}
    \cup UNION {SectionReferences(sec) : sec \in SeqRange(Header.section)}
    \cup {e.resource.subject.reference : e \in SeqRange(ObservationEntries)}
    \cup UNION {{p.reference : p \in SeqRange(e.resource.performer)} :
                    e \in SeqRange(ObservationEntries)}

Resolutions(reference) == {i \in 1..Len(Entries) : Entries[i].fullUrl = reference}

\* C1: in every generated bundle each cross-reference (the header's subject,
\* author and attester party, every section entry, every observation's subject
\* and performer) resolves to exactly one entry of the same bundle.
C1_ReferencesResolve ==
    Generated => \A reference \in CrossReferences : Cardinality(Resolutions(reference)) = 1

\* a bundle with measurements and lifestyle observations, all of them referenced
C1_Witness ==
    /\ Generated
    /\ \E e \in SeqRange(ObservationEntries) : "valueQuantity" \in DOMAIN e.resource
    /\ Cardinality(CrossReferences) >= 6
    /\ "entry" \in DOMAIN Header.section[4]

ResourceIds == [i \in 1..Len(Entries) |-> Entries[i].resource.id]

\* C2: within one bundle the header, the person, the attester and every
\* observation have pairwise distinct identities, and the bundle's identity
\* differs from its secondary identifier value.
C2_DistinctIdentities ==
    Generated =>
        /\ \A i, j \in 1..Len(Entries) : i # j => ResourceIds[i] # ResourceIds[j]
        /\ bundleJson.id # bundleJson.identifier.value

\* a bundle whose person keeps the identity of its record, with measurements
C2_Witness ==
    /\ Generated
    /\ form.resourceId # <<>> /\ Person.id = form.resourceId
    /\ Len(ObservationEntries) >= 4

IsVital(resource) == resource.resourceType = "Observation" /\ "valueQuantity" \in DOMAIN resource

IsLifestyle(resource) ==
    /\ resource.resourceType = "Observation"
    /\ OBS_LIFESTYLE_PROFILE \in SeqRange(resource.meta.profile)

\* the observations of the bundle that belong to the section of that title
Members(title) ==
    CASE title = "Vitals" -> {e \in SeqRange(Entries) : IsVital(e.resource)}
      [] title = "Lifestyle" -> {e \in SeqRange(Entries) : IsLifestyle(e.resource)}
      [] title = "Physical Activity" ->
            {e \in SeqRange(Entries) : /\ e.resource.resourceType = "Observation"
                                       /\ OBS_PHYSICAL_PROFILE \in SeqRange(e.resource.meta.profile)}
      [] title = "General Assessment" ->
            {e \in SeqRange(Entries) : /\ e.resource.resourceType = "Observation"
                                       /\ OBS_GENERAL_PROFILE \in SeqRange(e.resource.meta.profile)}

HasList(section) == "entry" \in DOMAIN section

HasNarrative(section) == "text" \in DOMAIN section /\ section.text.div # ""

\* C3: the header has the four sections Vitals, Physical Activity, General
\* Assessment, Lifestyle; each carries a non-empty cross-reference list or a
\* narrative, never an empty list and never neither, and a section without
\* members carries the narrative only.
C3_SectionContent ==
    Generated =>
        /\ [i \in 1..Len(Header.section) |-> Header.section[i].title]
               = <<"Vitals", "Physical Activity", "General Assessment", "Lifestyle">>
        /\ \A section \in SeqRange(Header.section) :
              /\ HasList(section) => Len(section.entry) > 0
              /\ HasList(section) \/ HasNarrative(section)
              /\ Members(section.title) = {} => ~HasList(section) /\ HasNarrative(section)

\* a bundle without measurements and without lifestyle observations
C3_Witness ==
    /\ Generated
    /\ Members("Vitals") = {} /\ Members("Lifestyle") = {}
    /\ ~HasList(Header.section[1]) /\ ~HasList(Header.section[4])

\* the measurement inputs in the order of the form
MeasurementInputs ==
    << vitals.hr, vitals.systolic, vitals.diastolic, vitals.temp, vitals.spo2,
       body.height, body.weight, body.bmi >>

NonEmptyMeasurements == {i \in 1..Len(MeasurementInputs) : MeasurementInputs[i] # ""}

\* C6: the bundle holds one measurement resource per non-empty measurement
\* input and none for an empty one, and the Vitals section lists as many
\* entries as there are non-empty inputs.
C6_VitalsCount ==
    Generated =>
        /\ Cardinality(Members("Vitals")) = Cardinality(NonEmptyMeasurements)
        /\ Len(SelectSeq(Entries, LAMBDA e : IsVital(e.resource)))
               = Cardinality(NonEmptyMeasurements)
        /\ Cardinality(SectionReferences(Header.section[1])) = Cardinality(NonEmptyMeasurements)
        /\ SectionReferences(Header.section[1]) = {e.fullUrl : e \in Members("Vitals")}

\* a bundle made with the heart rate empty and other measurements given
C6_Witness ==
    /\ Generated
    /\ vitals.hr = "" /\ vitals.systolic # "" /\ body.weight # ""
    /\ Cardinality(SectionReferences(Header.section[1])) >= 2

\* the labels of the measurement inputs in the order of the form
MeasurementLabels ==
    << "Heart rate", "Systolic blood pressure", "Diastolic blood pressure", "Body temperature",
       "SpO2", "Height", "Weight", "BMI" >>

GivenMeasurementLabels ==
    LET given == SelectSeq([i \in 1..8 |-> i], LAMBDA i : MeasurementInputs[i] # "")
    IN  [k \in 1..Len(given) |-> MeasurementLabels[given[k]]]

GivenLifestyleLabels ==
    LET given == SelectSeq(lifestyle,
                     LAMBDA li : ~(li.label = "" /\ li.value.t = "string" /\ li.value.s = ""))
    IN  [k \in 1..Len(given) |-> IF given[k].label # "" THEN given[k].label ELSE "Lifestyle"]

\* what an entry holds: the resource type, and for an observation its label
EntryKind(e) ==
    IF e.resource.resourceType = "Observation" THEN e.resource.code.text
    ELSE e.resource.resourceType

SectionUrls(i) ==
    IF HasList(Header.section[i])
    THEN [k \in 1..Len(Header.section[i].entry) |-> Header.section[i].entry[k].reference]
    ELSE <<>>

UrlsOf(keep(_)) ==
    LET kept == SelectSeq(Entries, keep) IN [k \in 1..Len(kept) |-> kept[k].fullUrl]

\* C8: the entries are the header, the person, the attester, then the
\* measurements in input order, the physical activity, the general assessment
\* and the lifestyle items in list order; the section lists keep that order.
C8_EntryOrder ==
    Generated =>
        /\ [i \in 1..Len(Entries) |-> EntryKind(Entries[i])]
               = <<"Composition", "Patient", "Practitioner">> \o GivenMeasurementLabels
                   \o <<"Physical activity", "General assessment">> \o GivenLifestyleLabels
        /\ SectionUrls(1) = UrlsOf(LAMBDA e : IsVital(e.resource))
        /\ SectionUrls(4) = UrlsOf(LAMBDA e : IsLifestyle(e.resource))

\* a bundle with several measurements and two different lifestyle items
C8_Witness ==
    /\ Generated
    /\ Len(SectionUrls(1)) >= 3
    /\ Len(SectionUrls(4)) = 2
    /\ Len(lifestyle) = 2 /\ lifestyle[1].label # lifestyle[2].label

(***************************************************************************)
(* Identity reuse (SpecGen)                                                *)
(***************************************************************************)
\* the internal reference of the record the form was made from
Seed == form.api.user_ref_id

HexText(s, positions) ==
    \A i \in positions : s[i] \in Digits \cup HexLower \cup HexUpper

\* 8-4-4-4-12 hexadecimal digits with the version digits named and a variant
\* digit of 8, 9, a or b
IsUuidOfVersions(v, versions) ==
    /\ v.t = "string"
    /\ Len(v.s) = 36
    /\ v.s[9] = "-" /\ v.s[14] = "-" /\ v.s[19] = "-" /\ v.s[24] = "-"
    /\ HexText(v.s, (1..8) \cup (10..13) \cup (16..18) \cup (21..23) \cup (25..36))
    /\ v.s[15] \in versions
    /\ v.s[20] \in {"8", "9", "a", "b", "A", "B"}

SeedReused == Seed.t = "string" /\ Person.id = toLowerCase(Seed.s)

CoinedBefore(id) == \E k \in 0..(uuidCount - 1) : id = uuidv4(k)

EarlierIds ==
    IF Generated
    THEN SeqRange(ResourceIds) \cup {bundleJson.id, bundleJson.identifier.value}
    ELSE {}

\* the identity was coined by the run that is the step
Fresh(id) ==
    /\ ~CoinedBefore(id)
    /\ id \notin EarlierIds
    /\ \E k \in uuidCount..(uuidCount' - 1) : id = uuidv4(k)

RunStep ==
    /\ Generated' /\ uuidCount' # uuidCount
    /\ IF IsUuidOfVersions(Seed, {"1", "2", "3", "4", "5"})
       THEN /\ Person'.id = toLowerCase(Seed.s)
            /\ Generated => Person'.id = Person.id
       ELSE /\ Fresh(Person'.id)
            /\ Seed.t = "string" => Person'.id # Seed.s /\ Person'.id # toLowerCase(Seed.s)
    /\ \A e \in SeqRange(Entries') : e.resource.resourceType # "Patient" => Fresh(e.resource.id)
    /\ Fresh(bundleJson'.id)
    /\ Fresh(bundleJson'.identifier.value)

Returned(fn) == call.fn = fn /\ call.done

\* the identifier labels the sources present in the form give, in order
PresentSources(f) ==
    (IF f.abhaRef # "" THEN <<[label |-> "ABHA Number", value |-> f.abhaRef]>> ELSE <<>>)
    \o (IF f.selectedAbhaAddress.t = "string" /\ f.selectedAbhaAddress.s # ""
        THEN <<[label |-> "ABHA Address", value |-> f.selectedAbhaAddress.s]>> ELSE <<>>)
    \o (IF f.mrn # <<>> THEN <<[label |-> "MRN", value |-> f.mrn]>> ELSE <<>>)

IdentifierLabels(resource) ==
    [i \in 1..Len(resource.identifier) |->
        [label |-> resource.identifier[i].type.text, value |-> resource.identifier[i].value]]

\* C7: the identifier list of the person resource is never empty: it holds
\* one entry per present source (health id, selected address, record number)
\* in that order, and exactly one generated-id entry holding the resource's
\* identity when no source is present.
C7_IdentifierNeverEmpty ==
    Returned("buildFhirPatient") =>
        /\ Len(call.ret.identifier) >= 1
        /\ IF PresentSources(call.arg) # <<>>
           THEN IdentifierLabels(call.ret) = PresentSources(call.arg)
           ELSE IdentifierLabels(call.ret) = <<[label |-> "generated-id", value |-> call.ret.id]>>

\* a call on a form without any source
C7_Witness ==
    /\ Returned("buildFhirPatient")
    /\ PresentSources(call.arg) = <<>>
    /\ call.ret.identifier[1].type.text = "generated-id"

IsIsoShape(s) ==
    /\ Len(s) = 10
    /\ \A i \in {1, 2, 3, 4, 6, 7, 9, 10} : s[i] \in Digits
    /\ s[5] = "-" /\ s[8] = "-"

\* DD-MM-YYYY or DD/MM/YYYY with one separator used twice
IsDayMonthYearShape(s) ==
    /\ Len(s) = 10
    /\ \A i \in {1, 2, 4, 5, 7, 8, 9, 10} : s[i] \in Digits
    /\ s[3] \in {"-", "/"} /\ s[6] = s[3]

DayMonthYearToIso(s) == SubSeq(s, 7, 10) \o <<"-">> \o SubSeq(s, 4, 5) \o <<"-">> \o SubSeq(s, 1, 2)

\* the text of the argument without surrounding blanks ("" when undefined)
DateText == IF call.arg.t = "string" THEN trim(call.arg.s) ELSE <<>>

\* C10: date repair returns a YYYY-MM-DD input unchanged, YYYY-MM-DD for a
\* DD-MM-YYYY or DD/MM/YYYY input, and an absent date for every other input,
\* so that the result is always absent or of the shape YYYY-MM-DD.
C10_DateRepair ==
    Returned("ddmmyyyyToISO") =>
        /\ IsIsoShape(DateText) => call.ret = DateText
        /\ IsDayMonthYearShape(DateText) => call.ret = DayMonthYearToIso(DateText)
        /\ ~IsIsoShape(DateText) /\ ~IsDayMonthYearShape(DateText) => call.ret = <<>>
        /\ call.ret = <<>> \/ IsIsoShape(call.ret)

(***************************************************************************)
(* Properties of the generation flow (Spec)                                *)
(***************************************************************************)
\* what an item of the nested list contributes when only strings (as they
\* are) and the address property of objects count; "" is no contribution
AddressOfItem(it) ==
    IF it.t = "string" THEN it.s
    ELSE IF it.t = "object" THEN it.address
    ELSE ""

\* the same, an object without an address property contributing its encoding
AddressOrEncodingOfItem(it) ==
    IF it.t = "object" /\ it.address = "" THEN it.json ELSE AddressOfItem(it)

NestedList == call.arg.abha_addresses

ListShaped == NestedList.t = "array"

\* the returned list lists, without repetition and in the order of first
\* occurrence, the non-empty contributions of the items
FirstOccurrences(out, contributions) ==
    /\ \A i, j \in 1..Len(out) : out[i] = out[j] => i = j
    /\ SeqRange(out) = SeqRange(contributions) \ {""}
    /\ \A i, j \in 1..Len(out) :
          i < j =>
            \E a \in 1..Len(contributions) :
                /\ contributions[a] = out[i]
                /\ \A b \in 1..Len(contributions) : contributions[b] = out[j] => a < b

LegacyFallback ==
    call.ret = IF call.arg.abha_ref # "" THEN <<call.arg.abha_ref>> ELSE <<>>

\* C11 as stated: for a list-shaped nested list the result is the addresses
\* of its items (strings as they are, objects by their address property),
\* without duplicates and in order of first occurrence; otherwise it is the
\* list of the legacy single address, or empty.
C11_AddressesOfItems ==
    Returned("extractAbhaAddresses") =>
        IF ListShaped
        THEN FirstOccurrences(call.ret,
                [i \in 1..Len(NestedList.items) |-> AddressOfItem(NestedList.items[i])])
        ELSE LegacyFallback

\* C11 amended: for a list-shaped nested list the result is, without
\* duplicates and in order of first occurrence, the non-empty strings among
\* its items, the address property of the objects that have one and the
\* encoding of the objects that have none; null, empty and other items
\* contribute nothing.  Otherwise it is the list of the legacy single
\* address, or empty.
C11_AddressesOrEncodings ==
    Returned("extractAbhaAddresses") =>
        IF ListShaped
        THEN FirstOccurrences(call.ret,
                [i \in 1..Len(NestedList.items) |-> AddressOrEncodingOfItem(NestedList.items[i])])
        ELSE LegacyFallback

\* a list with a repeated address, a null item and an object without an
\* address property
C11_Witness ==
    /\ Returned("extractAbhaAddresses")
    /\ ListShaped
    /\ NestedList.items = << Str("a@abdm"),
                             [t |-> "object", address |-> "a@abdm", json |-> "{address:a@abdm}"],
                             [t |-> "object", address |-> "", json |-> "{handle:c}"] >>
    /\ call.ret = <<"a@abdm", "{handle:c}">>

GenderCodes == {GENDER_MALE_LC, GENDER_FEMALE_LC, GENDER_OTHER_LC, GENDER_UNKNOWN_LC}

\* C12: the gender of the person mapApiToForm returns is male, female, other,
\* unknown or absent, and so is the gender of the person resource built from it.
C12_GenderEnum ==
    Returned("mapApiToForm") =>
        /\ call.ret.gender \in GenderCodes \cup {<<>>}
        /\ buildFhirPatient(call.ret, uuidv4(0)).gender
              \in {Undefined} \cup {Str(g) : g \in GenderCodes}

\* the value of the person resource's identifier labelled "ABHA Address"
EmittedAddresses(resource) ==
    { resource.identifier[i].value :
        i \in { k \in 1..Len(resource.identifier) :
                  resource.identifier[k].type.text = "ABHA Address" } }

C13_ChoiceStep ==
    /\ form # Null =>
          \A x \in abhaOptions(form) \ {""} :
              updateFormField("selectedAbhaAddress", Str(x)) =>
                  form'.selectedAbhaAddress = Str(x)
    /\ (GenerateBundle /\ Generated' /\ form.selectedAbhaAddress.s # "") =>
          EmittedAddresses(Person') = {form.selectedAbhaAddress.s}

\* C13: once the user has picked the address X of the selected person and
\* the state updates and effects have run, the form's selected address is X,
\* and a successful generation emits the form's selected address as the
\* person's address identifier.
C13_ChoiceKept == [][C13_ChoiceStep]_vars

IdentifierTexts(resource) ==
    { resource.identifier[i].type.text : i \in 1..Len(resource.identifier) }

\* C14: the person resource of every bundle that is output carries the health
\* id or the health address as an identifier and never the generated-id
\* identifier.
C14_RealIdentifier ==
    Generated =>
        /\ IdentifierTexts(Person) \cap {"ABHA Number", "ABHA Address"} # {}
        /\ "generated-id" \notin IdentifierTexts(Person)

\* a bundle for a person whose only source is the selected address
C14_Witness ==
    /\ Generated
    /\ form # Null /\ form.abhaRef = "" /\ form.mrn = <<>>
    /\ IdentifierTexts(Person) = {"ABHA Address"}

RefusalMessages == {MsgSelectPatient, MsgSelectAbha, MsgPractitioner}

C15_Displayed ==
    /\ Generated =>
          /\ loadState = "done"
          /\ form # Null /\ selectedIndex >= 0
          /\ message = MsgGenerated
    /\ message \in RefusalMessages \cup {MsgLoadFailed} => ~Generated

C15_Step ==
    (loadState \in {"pending", "failed"} /\ GenerateBundle) =>
        (bundleJson' = NoBundle /\ message' = MsgSelectPatient)

\* C15: however the one load interleaves with the user's actions, a bundle
\* is displayed only after the load succeeded and with a person selected, the
\* message shown beside a displayed bundle is the success message (never the
\* load-failure or a refusal message), and a generate invocation before the
\* load completes or after it failed is refused with the no-person message.
C15_LoadInterleaving == []C15_Displayed /\ [][C15_Step]_vars

\* a generate invocation refused after the load failed
C15_Witness ==
    /\ loadState = "failed"
    /\ message = MsgSelectPatient
    /\ ~Generated

NoPerson == form = Null

NoHealthIdentity ==
    /\ form.abhaRef = ""
    /\ ~(form.selectedAbhaAddress.t = "string" /\ form.selectedAbhaAddress.s # "")

AttesterIncomplete == practitioner.name = "" \/ practitioner.license = ""

PreconditionsHold == ~NoPerson /\ ~NoHealthIdentity /\ ~AttesterIncomplete

Refused(text) == bundleJson' = NoBundle /\ message' = text

\* C4: a generate invocation with a failed precondition outputs no bundle and
\* shows the message of the first failed precondition in the order person,
\* health identity, attester; an empty license gives the message that names
\* the practitioner license.
C4_RefusalStep ==
    (~PreconditionsHold /\ GenerateBundle) =>
        IF NoPerson THEN Refused("Please select a patient.")
        ELSE IF NoHealthIdentity THEN Refused("Please select ABHA address.")
        ELSE Refused("Practitioner name and license required.")

C4_Refusal == [][C4_RefusalStep]_vars

\* a refusal for an empty license of an attester with a name, for a person that
\* has a health identity
C4_Witness ==
    /\ ~NoPerson /\ ~NoHealthIdentity
    /\ practitioner.license = "" /\ practitioner.name # ""
    /\ bundleJson = NoBundle
    /\ message = "Practitioner name and license required."

\* a bundle with its header, person, attester and observations
CompleteBundle ==
    /\ bundleJson.resourceType = "Bundle"
    /\ Len(EntriesOfType("Composition")) = 1
    /\ Len(EntriesOfType("Patient")) = 1
    /\ Len(EntriesOfType("Practitioner")) = 1
    /\ Len(ObservationEntries) >= 2
    /\ Len(Entries) = 3 + Len(ObservationEntries)
    /\ Len(Header.section) = 4

C5_Step ==
    /\ (bundleJson' # bundleJson) => (GenerateBundle \/ ResetPreview)
    /\ (Generated' /\ bundleJson' # bundleJson) => PreconditionsHold
    /\ (~PreconditionsHold /\ GenerateBundle) => ~Generated'
    /\ (PreconditionsHold /\ GenerateBundle) => Generated'
    /\ ResetPreview => ~Generated'

\* C5: the flow is always Idle (no bundle) or Generated (a complete bundle);
\* only a generate invocation whose preconditions hold enters Generated; reset
\* and a generate invocation that fails a precondition end in Idle; no other
\* event changes the output.
C5_IdleOrGenerated == [](~Generated \/ CompleteBundle) /\ [][C5_Step]_vars

\* Idle after a refusal that discarded the output of an earlier run
C5_Witness ==
    /\ ~Generated
    /\ uuidCount > 0
    /\ message = "Practitioner name and license required."

====
